---- MODULE Spec2Model ----
(***************************************************************************)
(* Model of CommandLineParser.h: the CommandLineOption value object and    *)
(* the CommandLineParser driver (declaration calls, the parse() scan, the  *)
(* help / version / required-option decisions and the post-parse queries). *)
(*                                                                         *)
(* A std::string is a sequence of one-character strings, so that matching, *)
(* whitespace splitting and line wrapping are computed on characters.      *)
(* argv[k] of the program is m_argv[k + 1] here (sequences start at 1).    *)
(***************************************************************************)
EXTENDS Integers, Sequences, FiniteSets, TLC

\* Largest number of declaration calls made before parse().
MaxOpts == 2

\* Largest number of argument tokens after the program path (argc - 1).
MaxArgs == 3

\* Largest number of argument tokens of the vectors that repeat user flags.
MaxRepeatArgs == 4

\* Largest length of the delimited value strings given on the command line.
MaxValueLen == 3

----------------------------------------------------------------------------
(* Strings *)

Min(a, b) == IF a <= b THEN a ELSE b

\* std::isspace in the "C" locale, which operator>> skips and stops at: the
\* blank, \t, \n, \v, \f and \r.
IsSpace(c) == c \in {" ", "\t", "\n", "", "\f", "\r"}

\* std::string(n, c)
Rep(c, n) == [k \in 1..n |-> c]

\* s.substr(pos): the characters from 0-based position pos on.
SubstrFrom(s, pos) == SubSeq(s, pos + 1, Len(s))

\* s.substr(0, n): the first n characters.
SubstrTo(s, n) == SubSeq(s, 1, Min(n, Len(s)))

\* Number of leading whitespace characters of s.
RECURSIVE LeadingSpaces(_)
LeadingSpaces(s) ==
    IF s = << >> \/ ~IsSpace(Head(s)) THEN 0 ELSE 1 + LeadingSpaces(Tail(s))

\* Number of leading non-whitespace characters of s.
RECURSIVE WordLen(_)
WordLen(s) ==
    IF s = << >> \/ IsSpace(Head(s)) THEN 0 ELSE 1 + WordLen(Tail(s))

\* std::stringstream ss(s); std::string w = ""; if (!ss.eof()) ss >> w;
\* operator>> skips leading whitespace and reads up to the next whitespace;
\* on an empty or all-blank string nothing is read and w stays empty.
FirstWord(s) ==
    LET rest == SubstrFrom(s, LeadingSpaces(s))
    IN  SubstrTo(rest, WordLen(rest))

----------------------------------------------------------------------------
(* CommandLineOption *)

\* The seven-argument constructor; m_value, m_set and m_addSpace take their
\* in-class initialisers.
CommandLineOption(arg, argAlt, desc, defaultValue, hasValue, required, separator) ==
    [ m_arg         |-> arg,
      m_argAlt      |-> argAlt,
      m_desc        |-> desc,
      m_value       |-> << >>,
      m_default     |-> defaultValue,
      m_set         |-> FALSE,
      m_required    |-> required,
      m_hasValue    |-> hasValue,
      m_isSeparator |-> separator,
      m_addSpace    |-> 0 ]

\* check without the early return on m_set: an option already set matches again.
checkNoGuard(o, arg) ==
    LET argAltArg == FirstWord(o.m_argAlt)
        s1 == IF o.m_arg # << >> THEN o.m_arg = arg ELSE o.m_set
        s2 == IF ~s1 /\ argAltArg # << >> THEN argAltArg = arg ELSE s1
    IN  [opt |-> [o EXCEPT !.m_set = s2], ret |-> s2]

\* check without the tests for empty names.
checkEmptyNames(o, arg) ==
    IF o.m_set
    THEN [opt |-> o, ret |-> FALSE]
    ELSE LET argAltArg == FirstWord(o.m_argAlt)
             s1 == o.m_arg = arg
             s2 == IF ~s1 THEN argAltArg = arg ELSE s1
         IN  [opt |-> [o EXCEPT !.m_set = s2], ret |-> s2]

\* check comparing the token with the whole alternate-name field.
checkWholeAlt(o, arg) ==
    IF o.m_set
    THEN [opt |-> o, ret |-> FALSE]
    ELSE LET argAltArg == o.m_argAlt
             s1 == IF o.m_arg # << >> THEN o.m_arg = arg ELSE o.m_set
             s2 == IF ~s1 /\ argAltArg # << >> THEN argAltArg = arg ELSE s1
         IN  [opt |-> [o EXCEPT !.m_set = s2], ret |-> s2]

\* bool check(const std::string& arg): the option after the call and the
\* value returned.
check(o, arg) ==
    IF o.m_set
    THEN [opt |-> o, ret |-> FALSE]
    ELSE LET argAltArg == FirstWord(o.m_argAlt)
             s1 == IF o.m_arg # << >> THEN o.m_arg = arg ELSE o.m_set
             s2 == IF ~s1 /\ argAltArg # << >> THEN argAltArg = arg ELSE s1
         IN  [opt |-> [o EXCEPT !.m_set = s2], ret |-> s2]

\* isSet() without the default: true only for a matched option.
OptIsSetMatchedOnly(o) == o.m_set

\* bool isSet() const
OptIsSet(o) == o.m_set \/ o.m_default # << >>

\* void setValue(const std::string& value)
setValue(o, value) == [o EXCEPT !.m_value = value]

\* const std::string& getValue() const
OptGetValue(o) == IF o.m_set THEN o.m_value ELSE o.m_default

\* operator== comparing the default value as well.
OptEqWithDefault(a, b) ==
    /\ a.m_arg = b.m_arg /\ a.m_argAlt = b.m_argAlt /\ a.m_desc = b.m_desc
    /\ a.m_default = b.m_default

\* bool operator==(const CommandLineOption& rhs) const
OptEq(a, b) ==
    a.m_arg = b.m_arg /\ a.m_argAlt = b.m_argAlt /\ a.m_desc = b.m_desc

\* size_t getArgsLength() const
getArgsLength(o) ==
    IF o.m_isSeparator THEN 0 ELSE Len(o.m_arg \o <<",", " ">> \o o.m_argAlt)

----------------------------------------------------------------------------
(* The parser's built-in options and the declarations the host registers *)

m_helpOpt ==
    CommandLineOption(<<"-", "h">>, <<"-", "-", "h", "e", "l", "p">>,
        <<"D", "i", "s", "p", "l", "a", "y", "s", " ", "H", "e", "l", "p">>,
        << >>, FALSE, FALSE, FALSE)

\* The initial value of the member m_verOpt.
VersionOption ==
    CommandLineOption(<<"-", "v">>, <<"-", "-", "v", "e", "r", "s", "i", "o", "n">>,
        <<"P", "r", "i", "n", "t", " ", "t", "h", "e", " ",
          "v", "e", "r", "s", "i", "o", "n">>,
        << >>, FALSE, FALSE, FALSE)

\* CommandLineOption("", "", "", "", HasValue::No, Required::No, Separator::Yes)
SeparatorOpt ==
    CommandLineOption(<< >>, << >>, << >>, << >>, FALSE, FALSE, TRUE)

\* CLO("-f", "--file FILE", "Input file", CLO::HasValue::Yes, CLO::Required::Yes):
\* a required value-bearing option whose alternate field carries a value hint.
OptFile ==
    CommandLineOption(<<"-", "f">>,
        <<"-", "-", "f", "i", "l", "e", " ", "F", "I", "L", "E">>,
        <<"I", "n", "p", "u", "t", " ", "f", "i", "l", "e">>,
        << >>, TRUE, TRUE, FALSE)

\* CLO("-g", "--fmt", "see " + std::string(70, 'x'), "txt"): an optional
\* value-bearing option with a default, described by a short word followed by
\* one long unbroken word (a URL, a path).
OptFmt ==
    CommandLineOption(<<"-", "g">>, <<"-", "-", "f", "m", "t">>,
        <<"s", "e", "e", " ">> \o Rep("x", 70),
        <<"t", "x", "t">>, TRUE, FALSE, FALSE)

\* The declarations a host passes to addOption.
OptionPool == {OptFile, OptFmt}

\* argv[0] and the tokens that follow it.
ProgPath == <<".", "/", "p", "r", "o", "g">>
Tokens == { <<"-", "f">>, <<"-", "g">>, <<"-", "h">>, <<"-", "v">> }

\* The tokens of the longer vectors, in which a flag follows its own value.
RepeatTokens == { <<"-", "f">>, <<"-", "g">> }

\* The value strings given after a value-bearing flag: every string of at most
\* MaxValueLen characters over a letter and the comma.
ValueStrings == UNION { [1..n -> {"a", ","}] : n \in 0..MaxValueLen }

\* The words of OptFile's alternate-name field, and the field as one token.
AltTokens ==
    { <<"-", "-", "f", "i", "l", "e">>,
      <<"F", "I", "L", "E">>,
      <<"-", "-", "f", "i", "l", "e", " ", "F", "I", "L", "E">> }

\* CLO("-V", "--ver", "Custom version", HasValue::No) and
\* CLO("-w", "--wv", "Version with default", "dflt"): the version options a host
\* passes to addVersionOption(versionOpt).
VerCustom ==
    CommandLineOption(<<"-", "V">>, <<"-", "-", "v", "e", "r">>,
        <<"C", "u", "s", "t", "o", "m", " ", "v", "e", "r", "s", "i", "o", "n">>,
        << >>, FALSE, FALSE, FALSE)

VerDefault ==
    CommandLineOption(<<"-", "w">>, <<"-", "-", "w", "v">>,
        <<"V", "e", "r", "s", "i", "o", "n", " ", "w", "i", "t", "h", " ",
          "d", "e", "f", "a", "u", "l", "t">>,
        <<"d", "f", "l", "t">>, TRUE, FALSE, FALSE)

VersionPool == {VerCustom, VerDefault}

\* The tokens of the runs of a host that sets its own version option.
VersionRunTokens == { <<"-", "f">>, <<"-", "h">>, <<"-", "v">>, <<"-", "V">> }

\* Constructor arguments programName and programVersion.
ProgramName    == <<"p", "r", "o", "g">>
ProgramVersion == <<"1", ".", "0">>

HelpTokens == { <<"-", "h">>, <<"-", "-", "h", "e", "l", "p">> }
VersionTokens == { <<"-", "v">>, <<"-", "-", "v", "e", "r", "s", "i", "o", "n">> }

----------------------------------------------------------------------------
(* State *)

VARIABLES
    m_options,     \* std::deque<CommandLineOption>
    m_argv,        \* the argument vector; m_argc is its length
    pc,            \* "declare" | "scan" | "exited" | "returned" | "crashed" | "hung"
    i,             \* the scan index of parse()
    anyMatch,      \* local of parse()
    requireMatch,  \* argument of parse()
    exitCode,      \* << >> while running, <<status>> after exit(status)
    cout,          \* lines written to standard output
    cerr,          \* diagnostics written to standard error
    log,           \* history of the calls of check and setValue made by parse()
    answer,        \* << >>, or <<r>> with r the results of the host's last query
    m_verOpt       \* the member m_verOpt

vars == <<m_options, m_argv, pc, i, anyMatch, requireMatch, exitCode, cout, cerr, log,
          answer, m_verOpt>>

m_argc == Len(m_argv)

\* m_argv[k] of the program
Argv(k) == m_argv[k + 1]

ArgVectors ==
    UNION { { <<ProgPath>> \o s : s \in [1..n -> Tokens] } : n \in 0..MaxArgs }
    \cup
    UNION { { <<ProgPath>> \o s : s \in [1..n -> RepeatTokens] } : n \in 0..MaxRepeatArgs }

\* The argument vectors of the runs that end in queries: one token that is a
\* value string or a word of an alternate-name field, or a flag of OptFile
\* followed by a value string.
QueryArgVectors ==
    { <<ProgPath, s>> : s \in ValueStrings \cup AltTokens }
    \cup
    { <<ProgPath, f, s>> : f \in {<<"-", "f">>, <<"-", "-", "f", "i", "l", "e">>},
                          s \in ValueStrings }

\* The argument vectors of the runs of a host that sets its own version option.
VersionArgVectors ==
    UNION { { <<ProgPath>> \o s : s \in [1..n -> VersionRunTokens] } : n \in 0..MaxArgs }

Init ==
    /\ m_options = << >>
    /\ m_argv \in ArgVectors
    /\ pc = "declare"
    /\ i = 0
    /\ anyMatch = FALSE
    /\ requireMatch = TRUE
    /\ exitCode = << >>
    /\ cout = << >>
    /\ cerr = << >>
    /\ log = << >>
    /\ answer = << >>
    /\ m_verOpt = VersionOption

\* The same construction with an argument vector of VersionArgVectors.
InitVersion ==
    /\ m_options = << >>
    /\ m_argv \in VersionArgVectors
    /\ pc = "declare"
    /\ i = 0
    /\ anyMatch = FALSE
    /\ requireMatch = TRUE
    /\ exitCode = << >>
    /\ cout = << >>
    /\ cerr = << >>
    /\ log = << >>
    /\ answer = << >>
    /\ m_verOpt = VersionOption

\* The same construction with an argument vector of QueryArgVectors.
InitQuery ==
    /\ m_options = << >>
    /\ m_argv \in QueryArgVectors
    /\ pc = "declare"
    /\ i = 0
    /\ anyMatch = FALSE
    /\ requireMatch = TRUE
    /\ exitCode = << >>
    /\ cout = << >>
    /\ cerr = << >>
    /\ log = << >>
    /\ answer = << >>
    /\ m_verOpt = VersionOption

----------------------------------------------------------------------------
(* Declaration calls *)

CanDeclare == pc = "declare" /\ Len(m_options) < MaxOpts

DeclFrame ==
    UNCHANGED <<m_argv, pc, i, anyMatch, requireMatch, exitCode, cout, cerr, log,
                answer, m_verOpt>>

\* void addVersionOption()
addVersionOption ==
    /\ CanDeclare
    /\ m_options' = Append(m_options, m_verOpt)
    /\ DeclFrame

\* void addVersionOption(const CommandLineOption& versionOpt)
addVersionOptionWith(versionOpt) ==
    /\ CanDeclare
    /\ m_verOpt' = versionOpt
    /\ m_options' = Append(m_options, versionOpt)
    /\ UNCHANGED <<m_argv, pc, i, anyMatch, requireMatch, exitCode, cout, cerr, log,
                   answer>>

addOption(opt) ==
    /\ CanDeclare
    /\ m_options' = Append(m_options, opt)
    /\ DeclFrame

addSeparator ==
    /\ CanDeclare
    /\ m_options' = Append(m_options, SeparatorOpt)
    /\ DeclFrame

\* addHelpOption with push_back.
addHelpOptionBack ==
    /\ CanDeclare
    /\ m_options' = Append(m_options, m_helpOpt)
    /\ DeclFrame

addHelpOption ==
    /\ CanDeclare
    /\ m_options' = <<m_helpOpt>> \o m_options
    /\ DeclFrame

----------------------------------------------------------------------------
(* parse(): the scan *)

\* One call of check(str) on option k while scanning argv[tok].
CheckEvent(k, tok, ret) == [ev |-> "check", opt |-> k, tok |-> tok, ret |-> ret]

\* One call of setValue(m_argv[tok]) on option k.
SetValueEvent(k, tok) == [ev |-> "setValue", opt |-> k, tok |-> tok, ret |-> TRUE]

\* The loop over m_options left after the first option that matched.
RECURSIVE ScanOptionsFirstMatch(_, _, _, _)
ScanOptionsFirstMatch(st, k, str, tok) ==
    IF k > Len(st.opts)
    THEN st
    ELSE LET c   == check(st.opts[k], str)
             lg  == Append(st.log, CheckEvent(k, tok, c.ret))
             nxt == st.i + 1
         IN  IF ~c.ret
             THEN ScanOptionsFirstMatch([st EXCEPT !.opts[k] = c.opt, !.log = lg],
                                        k + 1, str, tok)
             ELSE IF c.opt.m_hasValue
             THEN IF nxt >= Len(m_argv)
                  THEN [st EXCEPT !.opts[k] = c.opt, !.log = lg, !.i = nxt, !.starved = k]
                  ELSE [st EXCEPT !.opts[k]  = setValue(c.opt, Argv(nxt)),
                                  !.log      = Append(lg, SetValueEvent(k, nxt)),
                                  !.i        = nxt,
                                  !.anyMatch = TRUE]
             ELSE [st EXCEPT !.opts[k] = c.opt, !.log = lg, !.anyMatch = TRUE]

\* The loop "for (CommandLineOption& option : m_options)" from option k on,
\* for the token str read at argv[tok].  st carries the options, the scan index i,
\* anyMatch and the call history; st.starved becomes the index of the option
\* that found no value token (the loop is left through exit(-1) there).
RECURSIVE ScanOptions(_, _, _, _)
ScanOptions(st, k, str, tok) ==
    IF k > Len(st.opts)
    THEN st
    ELSE LET c   == check(st.opts[k], str)
             lg  == Append(st.log, CheckEvent(k, tok, c.ret))
             nxt == st.i + 1
         IN  IF ~c.ret
             THEN ScanOptions([st EXCEPT !.opts[k] = c.opt, !.log = lg], k + 1, str, tok)
             ELSE IF c.opt.m_hasValue
             THEN IF nxt >= Len(m_argv)
                  THEN [st EXCEPT !.opts[k] = c.opt, !.log = lg, !.i = nxt, !.starved = k]
                  ELSE ScanOptions(
                           [st EXCEPT !.opts[k]  = setValue(c.opt, Argv(nxt)),
                                      !.log      = Append(lg, SetValueEvent(k, nxt)),
                                      !.i        = nxt,
                                      !.anyMatch = TRUE],
                           k + 1, str, tok)
             ELSE ScanOptions([st EXCEPT !.opts[k] = c.opt, !.log = lg, !.anyMatch = TRUE],
                              k + 1, str, tok)

\* "ERROR: Option (<arg> / <argAlt>) requires a value, but none was provided, exiting ..."
ErrNoValue(o) == [error |-> "requires a value", arg |-> o.m_arg, argAlt |-> o.m_argAlt]

\* "ERROR: Required option (<arg> / <argAlt>) not set, exiting ..."
ErrNotSet(o) == [error |-> "not set", arg |-> o.m_arg, argAlt |-> o.m_argAlt]

\* The starved branch without its exit(-1): the diagnostic is written and
\* parse() goes on to the decisions after the scan.
NoValueContinue(o) == [cerr |-> <<ErrNoValue(o)>>, pc |-> "scan", exitCode |-> << >>]

\* if (i >= m_argc) { std::cerr << "ERROR: Option ..." << std::endl; exit(-1); }
NoValueExit(o) == [cerr |-> <<ErrNoValue(o)>>, pc |-> "exited", exitCode |-> <<-1>>]

\* void parse(const bool& requireMatch = true): entry, up to the first loop test.
Parse(rm) ==
    /\ pc = "declare"
    /\ pc' = "scan"
    /\ i' = 1
    /\ anyMatch' = FALSE
    /\ requireMatch' = rm
    /\ UNCHANGED <<m_options, m_argv, exitCode, cout, cerr, log, answer, m_verOpt>>

\* One iteration of the loop over argv that steps to the next index whatever
\* the options consumed.
ScanTokenNoSkip ==
    /\ pc = "scan"
    /\ i < m_argc
    /\ LET r == ScanOptions([opts |-> m_options, i |-> i, anyMatch |-> anyMatch,
                             starved |-> 0, log |-> log], 1, Argv(i), i)
       IN  /\ m_options' = r.opts
           /\ log' = r.log
           /\ anyMatch' = r.anyMatch
           /\ IF r.starved # 0
              THEN LET x == NoValueExit(r.opts[r.starved])
                   IN  /\ cerr' = cerr \o x.cerr
                       /\ exitCode' = x.exitCode
                       /\ pc' = x.pc
                       /\ i' = r.i
              ELSE /\ i' = i + 1
                   /\ UNCHANGED <<cerr, exitCode, pc>>
    /\ UNCHANGED <<m_argv, requireMatch, cout, answer, m_verOpt>>

\* One iteration of "for (int i = 1; i < m_argc; i++)".
ScanToken ==
    /\ pc = "scan"
    /\ i < m_argc
    /\ LET r == ScanOptions([opts |-> m_options, i |-> i, anyMatch |-> anyMatch,
                             starved |-> 0, log |-> log], 1, Argv(i), i)
       IN  /\ m_options' = r.opts
           /\ log' = r.log
           /\ anyMatch' = r.anyMatch
           /\ IF r.starved # 0
              THEN LET x == NoValueExit(r.opts[r.starved])
                   IN  /\ cerr' = cerr \o x.cerr
                       /\ exitCode' = x.exitCode
                       /\ pc' = x.pc
                       /\ i' = r.i
              ELSE /\ i' = r.i + 1
                   /\ UNCHANGED <<cerr, exitCode, pc>>
    /\ UNCHANGED <<m_argv, requireMatch, cout, answer, m_verOpt>>

----------------------------------------------------------------------------
(* Queries of the parser *)

\* std::find(m_options.begin(), m_options.end(), opt): the position of the first
\* registered option equal to opt, 0 for m_options.end().
Find(opts, opt) ==
    LET hit == {k \in 1..Len(opts) : OptEq(opts[k], opt)}
    IN  IF hit = {} THEN 0 ELSE CHOOSE k \in hit : \A j \in hit : k <= j

\* isSet falling back to the queried object itself when nothing equal is
\* registered.
isSetOwnOnMiss(opt) ==
    LET k == Find(m_options, opt) IN IF k = 0 THEN OptIsSet(opt) ELSE OptIsSet(m_options[k])

\* bool isSet(const CommandLineOption& opt) const
isSet(opt) ==
    LET k == Find(m_options, opt) IN IF k = 0 THEN FALSE ELSE OptIsSet(m_options[k])

\* std::string getValue(const CommandLineOption& opt) const
getValue(opt) ==
    LET k == Find(m_options, opt) IN IF k = 0 THEN << >> ELSE OptGetValue(m_options[k])

\* The loop "while (std::getline(stream, item, delim)) split.push_back(item);"
\* on the unread text rest.  getline fails, and the loop ends, when nothing is
\* left to read; otherwise it reads up to the next delim, which it drops, or up
\* to the end.
RECURSIVE GetLines(_, _)
GetLines(rest, delim) ==
    IF rest = << >>
    THEN << >>
    ELSE LET hit  == {n \in 1..Len(rest) : rest[n] = delim}
             stop == IF hit = {} THEN Len(rest) + 1
                     ELSE CHOOSE n \in hit : \A m \in hit : n <= m
         IN  <<SubSeq(rest, 1, stop - 1)>> \o GetLines(SubSeq(rest, stop + 1, Len(rest)), delim)

\* splitString splitting on the last character of the delimiter string.
splitStringLastChar(s, delimiter) ==
    LET delim == IF delimiter # << >> THEN delimiter[Len(delimiter)] ELSE ","
    IN  GetLines(s, delim)

\* static std::vector<std::string> splitString(const std::string& s,
\*                                             const std::string& delimiter)
splitString(s, delimiter) ==
    LET delim == IF delimiter # << >> THEN delimiter[1] ELSE ","
    IN  GetLines(s, delim)

\* std::vector<std::string> getValueList(const CommandLineOption& opt,
\*                                       const std::string delim = ",") const
getValueList(opt, delim) ==
    LET k == Find(m_options, opt)
    IN  IF k = 0 THEN << >> ELSE splitString(OptGetValue(m_options[k]), delim)

\* A host-side object with OptFile's names and description whose other fields
\* differ: CLO("-f", "--file FILE", "Input file", "zz", HasValue::No,
\* Required::No, Separator::No) on which the host has called check("-f") and
\* setValue("q").
OptFileStale ==
    [CommandLineOption(OptFile.m_arg, OptFile.m_argAlt, OptFile.m_desc,
                       <<"z", "z">>, FALSE, FALSE, FALSE)
        EXCEPT !.m_set = TRUE, !.m_value = <<"q">>]

\* CLO("-x", "--xx", "Other", "a,a"): a declaration the host never registers.
OptOther ==
    CommandLineOption(<<"-", "x">>, <<"-", "-", "x", "x">>,
        <<"O", "t", "h", "e", "r">>, <<"a", ",", "a">>, TRUE, FALSE, FALSE)

\* The objects the host passes to isSet, getValue and getValueList.
QueryPool == {OptFile, OptFileStale, OptFmt, m_helpOpt, OptOther}

\* The delimiter arguments of getValueList: the default, the empty string and
\* a string of two characters.
Delimiters == { <<",">>, << >>, <<"a", ",">> }

\* The host's queries after parse() has returned: isSet(opt), getValue(opt) and
\* getValueList(opt, delim), all const.
Query(opt, delim) ==
    /\ pc = "returned"
    /\ answer' = << [ opt   |-> opt,
                     delim |-> delim,
                     isSet |-> isSet(opt),
                     value |-> getValue(opt),
                     list  |-> getValueList(opt, delim) ] >>
    /\ UNCHANGED <<m_options, m_argv, pc, i, anyMatch, requireMatch, exitCode, cout,
                   cerr, log, m_verOpt>>

----------------------------------------------------------------------------
(* Help and version output *)

\* const size_t maxLineLen = 80;
maxLineLen == 80

\* const size_t spaceArgDesc = 4;
spaceArgDesc == 4

\* desc.find_last_of(' ', pos): the greatest 0-based position <= pos holding c,
\* or a negative number for npos.  find_last_of starts at the last character
\* when pos is not less than the length; a negative pos stands for the wrapped
\* size_t value of a negative difference, which exceeds every length.
FindLastOf(s, c, pos) ==
    LET from == IF pos < 0 \/ pos >= Len(s) THEN Len(s) - 1 ELSE pos
        hit  == {p \in 0..from : s[p + 1] = c}
    IN  IF hit = {} THEN 0 - 1 ELSE CHOOSE p \in hit : \A q \in hit : q <= p

\* The description text before wrapping.
DescText(o) ==
    o.m_desc
    \o (IF o.m_required
        THEN <<" ", "(", "r", "e", "q", "u", "i", "r", "e", "d", ")">>
        ELSE << >>)
    \o (IF o.m_default # << >>
        THEN <<" ", "D", "E", "F", "A", "U", "L", "T", ":", " ">> \o o.m_default
        ELSE << >>)

\* The loop "while (desc.length() + spaceArgDesc + clo.m_addSpace > maxLineLen)":
\* the pieces it prints, the text left when it ends, and whether it never ends.
\* When no space is found spacePos is npos, substr(0, npos) is the whole text and
\* substr(npos + 1) = substr(0) leaves desc as it was: the loop repeats forever.
RECURSIVE WrapLoop(_, _)
WrapLoop(desc, addSpace) ==
    IF Len(desc) + spaceArgDesc + addSpace > maxLineLen
    THEN LET spacePos == FindLastOf(desc, " ", maxLineLen - (spaceArgDesc + addSpace))
         IN  IF spacePos < 0
             THEN [pieces |-> <<desc>>, rest |-> desc, hangs |-> TRUE]
             ELSE LET r == WrapLoop(SubstrFrom(desc, spacePos + 1), addSpace)
                  IN  [pieces |-> <<SubstrTo(desc, spacePos)>> \o r.pieces,
                       rest   |-> r.rest,
                       hangs  |-> r.hangs]
    ELSE [pieces |-> << >>, rest |-> desc, hangs |-> FALSE]

\* std::left << std::setfill(' ') << std::setw(w) << s
PadRight(s, w) == IF Len(s) >= w THEN s ELSE s \o Rep(" ", w - Len(s))

\* operator<<(std::ostream&, const CommandLineOption&): the lines written, and
\* whether the wrap loop never ends (lines then holds what is written before the
\* output starts to repeat).
Render(o) ==
    IF o.m_isSeparator
    THEN [lines |-> << << >> >>, hangs |-> FALSE]
    ELSE LET argStr == o.m_arg \o <<",", " ">> \o o.m_argAlt
             first  == PadRight(argStr, o.m_addSpace) \o Rep(" ", spaceArgDesc)
             indent == Rep(" ", spaceArgDesc + o.m_addSpace)
             w      == WrapLoop(DescText(o), o.m_addSpace)
             texts  == IF w.hangs THEN w.pieces ELSE w.pieces \o <<w.rest>>
         IN  [lines |-> [n \in 1..Len(texts) |->
                            (IF n = 1 THEN first ELSE indent) \o texts[n]],
              hangs |-> w.hangs]

\* The path without the '/' characters it ends in.
RECURSIVE StripSlashes(_)
StripSlashes(path) ==
    IF path # << >> /\ path[Len(path)] = "/"
    THEN StripSlashes(SubSeq(path, 1, Len(path) - 1))
    ELSE path

\* basename(m_argv[0]) of <libgen.h>: "." for the empty path, "/" for a path of
\* '/' characters only, else the part after the last '/' of the path without
\* the '/' characters it ends in.
Basename(path) ==
    IF path = << >> THEN <<".">>
    ELSE IF StripSlashes(path) = << >> THEN <<"/">>
    ELSE LET p == StripSlashes(path)
         IN  SubstrFrom(p, FindLastOf(p, "/", Len(p)) + 1)

\* m_argv[0] after basename(m_argv[0]): the call writes the end of the string
\* over the first of the '/' characters a path ends in, unless the path holds
\* nothing else.
BasenamePath(path) ==
    IF StripSlashes(path) = << >> THEN path ELSE StripSlashes(path)

\* updateAddSpaces() on a non-empty collection.
updateAddSpaces(opts) ==
    LET maxLen == CHOOSE n \in {getArgsLength(opts[k]) : k \in 1..Len(opts)} :
                      \A k \in 1..Len(opts) : getArgsLength(opts[k]) <= n
    IN  [k \in 1..Len(opts) |-> [opts[k] EXCEPT !.m_addSpace = maxLen]]

UsageLines ==
    << <<"U", "s", "a", "g", "e", ":", " ">> \o Basename(Argv(0))
         \o <<" ", "o", "p", "t", "i", "o", "n">>,
       << >> >>

\* The lines "for (const CommandLineOption& option : m_options) std::cout << option;"
\* writes from option k on, stopping at an option whose rendering never ends.
RECURSIVE PrintOptions(_, _)
PrintOptions(opts, k) ==
    IF k > Len(opts)
    THEN [lines |-> << >>, hangs |-> FALSE]
    ELSE LET r == Render(opts[k])
         IN  IF r.hangs
             THEN r
             ELSE LET t == PrintOptions(opts, k + 1)
                  IN  [lines |-> r.lines \o t.lines, hangs |-> t.hangs]

\* void printVersion()
VersionLine ==
    (IF ProgramName # << >> THEN ProgramName ELSE << >>)
    \o (IF ProgramVersion # << >>
        THEN (IF ProgramName # << >> THEN <<" ", "-", " ">> ELSE << >>) \o ProgramVersion
        ELSE << >>)

----------------------------------------------------------------------------
(* parse(): after the scan *)

ScanDone == pc = "scan" /\ i >= m_argc

\* The help condition without the implicit trigger of "no option matched".
HelpConditionHelpOnly == isSet(m_helpOpt)

\* if (isSet(m_helpOpt) || (!anyMatch && requireMatch))
HelpCondition == isSet(m_helpOpt) \/ (~anyMatch /\ requireMatch)

\* { printHelp(); exit(0); } with at least one registered option.
ExitHelp ==
    /\ ScanDone
    /\ HelpCondition
    /\ m_options # << >>
    /\ LET opts == updateAddSpaces(m_options)
           out  == PrintOptions(opts, 1)
       IN  /\ m_options' = opts
           /\ cout' = cout \o UsageLines \o out.lines
           /\ IF out.hangs
              THEN pc' = "hung" /\ UNCHANGED exitCode
              ELSE pc' = "exited" /\ exitCode' = <<0>>
    /\ m_argv' = [m_argv EXCEPT ![1] = BasenamePath(Argv(0))]
    /\ UNCHANGED <<i, anyMatch, requireMatch, cerr, log, answer, m_verOpt>>

\* { printHelp(); exit(0); } with no registered option: updateAddSpaces()
\* dereferences std::max_element(begin, end) == end() of the empty deque.  The
\* read is undefined; the run either dies there or goes on with some width, prints
\* the usage lines of an empty option list and exits.
ExitHelpEmpty ==
    /\ ScanDone
    /\ HelpCondition
    /\ m_options = << >>
    /\ \/ pc' = "crashed" /\ UNCHANGED <<cout, exitCode>>
       \/ pc' = "exited" /\ exitCode' = <<0>> /\ cout' = cout \o UsageLines
    /\ m_argv' = [m_argv EXCEPT ![1] = BasenamePath(Argv(0))]
    /\ UNCHANGED <<m_options, i, anyMatch, requireMatch, cerr, log, answer, m_verOpt>>

\* The version condition asking the parser's own m_verOpt member instead of the
\* registered copy.
VersionConditionMember == OptIsSet(m_verOpt)

\* if (isSet(m_verOpt))
VersionCondition == isSet(m_verOpt)

\* if (isSet(m_verOpt)) { printVersion(); exit(0); }
ExitVersion ==
    /\ ScanDone
    /\ ~HelpCondition
    /\ VersionCondition
    /\ cout' = Append(cout, VersionLine)
    /\ pc' = "exited"
    /\ exitCode' = <<0>>
    /\ UNCHANGED <<m_options, m_argv, i, anyMatch, requireMatch, cerr, log, answer, m_verOpt>>

\* The last loop of parse() leaving at the first missing option.
MissingRequiredFirstOnly(opts) ==
    LET all == SelectSeq(opts, LAMBDA o : o.m_required /\ ~OptIsSet(o))
    IN  SubSeq(all, 1, Min(1, Len(all)))

\* The registered options the last loop of parse() reports, in order.
MissingRequired(opts) ==
    SelectSeq(opts, LAMBDA o : o.m_required /\ ~OptIsSet(o))

\* The loop over the required options and "if (!allRequiredSet) exit(-1);".
CheckRequired ==
    /\ ScanDone
    /\ ~HelpCondition
    /\ ~VersionCondition
    /\ LET missing == MissingRequired(m_options)
       IN  /\ cerr' = cerr \o [n \in 1..Len(missing) |-> ErrNotSet(missing[n])]
           /\ IF missing # << >>
              THEN pc' = "exited" /\ exitCode' = <<-1>>
              ELSE pc' = "returned" /\ UNCHANGED exitCode
    /\ UNCHANGED <<m_options, m_argv, i, anyMatch, requireMatch, cout, log, answer, m_verOpt>>

----------------------------------------------------------------------------

Next ==
    \/ addHelpOption
    \/ addVersionOption
    \/ addSeparator
    \/ \E opt \in OptionPool : addOption(opt)
    \/ \E rm \in BOOLEAN : Parse(rm)
    \/ ScanToken
    \/ ExitHelp
    \/ ExitHelpEmpty
    \/ ExitVersion
    \/ CheckRequired

Spec == Init /\ [][Next]_vars

\* A host that registers no version option, calls parse() and then queries.
\* The runs of a host that may replace the version option: "Next" with
\* addVersionOption(versionOpt) and with OptFile as the only option of its own.
NextVersion ==
    \/ addHelpOption
    \/ addVersionOption
    \/ \E versionOpt \in VersionPool : addVersionOptionWith(versionOpt)
    \/ addOption(OptFile)
    \/ \E rm \in BOOLEAN : Parse(rm)
    \/ ScanToken
    \/ ExitHelp
    \/ ExitHelpEmpty
    \/ ExitVersion
    \/ CheckRequired

SpecVersion == InitVersion /\ [][NextVersion]_vars

NextQuery ==
    \/ addHelpOption
    \/ addSeparator
    \/ \E opt \in OptionPool : addOption(opt)
    \/ \E rm \in BOOLEAN : Parse(rm)
    \/ ScanToken
    \/ ExitHelp
    \/ ExitHelpEmpty
    \/ CheckRequired
    \/ \E opt \in QueryPool, delim \in Delimiters : Query(opt, delim)

SpecQuery == InitQuery /\ [][NextQuery]_vars

----------------------------------------------------------------------------
(* What the history and the final state show *)

\* parse() is over: it called exit, returned to the host, died or never ends.
Finished == pc \in {"exited", "returned", "crashed", "hung"}

IsCheck(p)    == log[p].ev = "check"
IsSetValue(p) == log[p].ev = "setValue"

\* check returned true on registered option k at some point of the scan.
Matched(k) == \E p \in DOMAIN log : IsCheck(p) /\ log[p].opt = k /\ log[p].ret

\* The greatest argv index read up to history position p: the scan index there.
IndexAt(p) ==
    CHOOSE n \in {log[q].tok : q \in 1..p} : \A q \in 1..p : log[q].tok <= n

\* At history position p a value-bearing option matched and argv has no token
\* after the scan index.
StarvedAt(p) ==
    /\ IsCheck(p)
    /\ log[p].ret
    /\ m_options[log[p].opt].m_hasValue
    /\ IndexAt(p) + 1 >= m_argc

Starved == \E p \in DOMAIN log : StarvedAt(p)

IsHelp(o)    == o.m_arg = <<"-", "h">> /\ o.m_argAlt = <<"-", "-", "h", "e", "l", "p">>
\* o is declared like the version option in force, the member m_verOpt.
IsVersion(o) ==
    o.m_arg = m_verOpt.m_arg /\ o.m_argAlt = m_verOpt.m_argAlt /\ o.m_desc = m_verOpt.m_desc

HelpRegistered    == \E k \in DOMAIN m_options : IsHelp(m_options[k])
VersionRegistered == \E k \in DOMAIN m_options : IsVersion(m_options[k])
HelpMatched       == \E k \in DOMAIN m_options : IsHelp(m_options[k]) /\ Matched(k)
VersionMatched    == \E k \in DOMAIN m_options : IsVersion(m_options[k]) /\ Matched(k)
NothingMatched    == \A k \in DOMAIN m_options : ~Matched(k)

\* The registered version option is set: the first registered option declared
\* like m_verOpt matched a token or has a default.
VersionSet ==
    \E k \in DOMAIN m_options :
        /\ IsVersion(m_options[k])
        /\ \A j \in 1..(k - 1) : ~IsVersion(m_options[j])
        /\ Matched(k) \/ m_options[k].m_default # << >>

\* Standard output starts with the usage line of the help text.
HelpPrinted ==
    /\ cout # << >>
    /\ Len(cout[1]) >= 6
    /\ SubSeq(cout[1], 1, 6) = <<"U", "s", "a", "g", "e", ":">>

\* "prog - 1.0"
Banner == <<"p", "r", "o", "g", " ", "-", " ", "1", ".", "0">>

BannerPrinted == \E n \in DOMAIN cout : cout[n] = Banner

ExitedWith(status) == pc = "exited" /\ exitCode = <<status>>

----------------------------------------------------------------------------
(* Claims *)

\* C1: during one parse() scan check returns true at most once for each
\* registered option instance: after a check on an instance has returned true,
\* every later check on that instance returns false, whatever the token.
C1_CheckTrueAtMostOnce ==
    \A p, q \in DOMAIN log :
        (/\ p < q
         /\ IsCheck(p) /\ IsCheck(q)
         /\ log[p].opt = log[q].opt
         /\ log[p].ret)
        => ~log[q].ret

\* An option matched, and a later token equal to its primary name was offered
\* to it again.
C1_Witness ==
    \E p, q \in DOMAIN log :
        /\ p < q
        /\ IsCheck(p) /\ IsCheck(q)
        /\ log[p].opt = log[q].opt
        /\ log[p].ret
        /\ Argv(log[q].tok) = m_options[log[q].opt].m_arg
        /\ ~log[q].ret

\* C2: every value recorded for a value-bearing option that matched the token
\* at argv index t is the token at index t + 1, also when several registered
\* options share a name.
C2_ValueIsNextToken ==
    \A p \in DOMAIN log :
        IsSetValue(p) =>
            /\ p > 1
            /\ IsCheck(p - 1) /\ log[p - 1].ret /\ log[p - 1].opt = log[p].opt
            /\ log[p].tok = log[p - 1].tok + 1

\* C3: when a value-bearing option that is not yet set matches a token and no
\* token remains after the scan index, parse() exits with a non-zero status
\* after one diagnostic that names that option; nothing is written to standard
\* output (no help, no version banner) and no required-option error is
\* reported, even if a help or version token matched earlier.
C3_StarvedExits ==
    \A p \in DOMAIN log :
        StarvedAt(p) =>
            /\ pc = "exited"
            /\ exitCode # << >> /\ exitCode[1] # 0
            /\ cerr = << [error  |-> "requires a value",
                          arg    |-> m_options[log[p].opt].m_arg,
                          argAlt |-> m_options[log[p].opt].m_argAlt] >>
            /\ cout = << >>

\* The help option matched an earlier token, a required option is registered,
\* and a value-bearing option then found no value.
C3_Witness ==
    /\ Starved
    /\ HelpMatched
    /\ \E k \in DOMAIN m_options : m_options[k].m_required
    /\ ExitedWith(-1)

\* The help condition of parse(), read from the history: the registered help
\* option matched, or nothing matched and a match was required.
HelpDue == HelpMatched \/ (NothingMatched /\ requireMatch)

\* C4: when the scan ends without a starved option, parse() prints help and
\* exits with status 0 if and only if the registered help option is set or no
\* registered option matched while requireMatch is true; no required-option
\* error is then reported, whatever required options are unset.
C4_HelpIffCondition ==
    (Finished /\ ~Starved) =>
        /\ (HelpPrinted /\ ExitedWith(0)) <=> HelpDue
        /\ HelpDue => cerr = << >>

\* C5: whenever argv holds -h or --help at an index >= 1, parse() prints help
\* and exits with status 0, whether or not addHelpOption was called.
C5_HelpAlwaysAvailable ==
    (Finished /\ \E n \in 1..(m_argc - 1) : Argv(n) \in HelpTokens) =>
        (HelpPrinted /\ ExitedWith(0))

\* The positions of the registered options that are required and neither
\* matched nor defaulted.
MissingPositions ==
    {k \in DOMAIN m_options :
        /\ m_options[k].m_required
        /\ ~m_options[k].m_set
        /\ m_options[k].m_default = << >>}

\* The n-th smallest element of a set of numbers.
Nth(S, n) == CHOOSE k \in S : Cardinality({j \in S : j < k}) = n - 1

\* parse() got as far as the required-option check.
RequiredCheckReached == Finished /\ ~Starved /\ ~HelpDue /\ ~VersionSet

\* C6: when parse() reaches the required-option check, it reports one error
\* for each registered option that is required and not set, all of them and in
\* declaration order, and exits with a non-zero status exactly when there is
\* at least one; otherwise it returns.  A match of some other option does not
\* bypass the check.
C6_RequiredReported ==
    RequiredCheckReached =>
        /\ Len(cerr) = Cardinality(MissingPositions)
        /\ \A n \in DOMAIN cerr :
               cerr[n] = [error  |-> "not set",
                          arg    |-> m_options[Nth(MissingPositions, n)].m_arg,
                          argAlt |-> m_options[Nth(MissingPositions, n)].m_argAlt]
        /\ cout = << >>
        /\ IF MissingPositions # {}
           THEN pc = "exited" /\ exitCode # << >> /\ exitCode[1] # 0
           ELSE pc = "returned"

\* Another option matched and captured its value, a required option is missing,
\* and parse() exits with -1 after reporting it.
C6_Witness ==
    /\ RequiredCheckReached
    /\ ~NothingMatched
    /\ MissingPositions # {}
    /\ Len(cerr) = 1
    /\ ExitedWith(-1)

\* C7: whenever parse(requireMatch) returns to the host, every registered
\* required option is set (matched or defaulted), the registered help option
\* and the registered version option, the one declared like m_verOpt, are not
\* set, and some registered option matched a token or requireMatch is false.
C7_ReturnedImplies ==
    pc = "returned" =>
        /\ \A k \in DOMAIN m_options :
               m_options[k].m_required =>
                   (Matched(k) \/ m_options[k].m_default # << >>)
        /\ ~HelpMatched
        /\ ~VersionSet
        /\ (~NothingMatched \/ ~requireMatch)
        /\ exitCode = << >>

\* parse(true) returned with a registered required option that matched.
C7_Witness ==
    /\ pc = "returned"
    /\ requireMatch
    /\ \E k \in DOMAIN m_options : m_options[k].m_required /\ Matched(k)

\* parse(false) returned after the token -v had set the option that
\* addVersionOption() registered before addVersionOption(versionOpt) replaced
\* m_verOpt: the version option in force is not set.
C7_WitnessReplaced ==
    /\ pc = "returned"
    /\ m_verOpt = VerCustom
    /\ VersionRegistered
    /\ \E k \in DOMAIN m_options : m_options[k].m_arg = <<"-", "v">> /\ Matched(k)

\* C8: when the scan ends, the help condition is false and the registered
\* version option, the one declared like m_verOpt, is set (it matched a token
\* or has a default), parse() prints the version banner and exits with status 0
\* without reporting a required-option error, even if required options are
\* unset; without a call of addVersionOption no banner is ever printed.
C8_VersionExit ==
    /\ (Finished /\ ~Starved /\ ~HelpDue /\ VersionSet) =>
           /\ cout = <<Banner>>
           /\ ExitedWith(0)
           /\ cerr = << >>
    /\ ~VersionRegistered => ~BannerPrinted

\* The version option matched while a registered required option is unset,
\* and parse() printed the banner and exited with 0.
C8_Witness ==
    /\ VersionMatched
    /\ VersionSet
    /\ MissingPositions # {}
    /\ cout = <<Banner>>
    /\ ExitedWith(0)

\* The host passed a version option with a default to addVersionOption: no
\* token matched, parse(false) printed the banner and exited with 0.
C8_WitnessDefault ==
    /\ m_verOpt = VerDefault
    /\ VersionSet
    /\ NothingMatched
    /\ ~requireMatch
    /\ cout = <<Banner>>
    /\ ExitedWith(0)

\* A -v token was scanned with no version option registered, and parse() is over.
C8_WitnessUnregistered ==
    /\ Finished
    /\ ~VersionRegistered
    /\ m_options # << >>
    /\ \E p \in DOMAIN log : IsCheck(p) /\ Argv(log[p].tok) \in VersionTokens

\* The history position of the first setValue call on option k.
FirstCapture(k) ==
    CHOOSE p \in DOMAIN log :
        /\ IsSetValue(p) /\ log[p].opt = k
        /\ \A q \in DOMAIN log : (IsSetValue(q) /\ log[q].opt = k) => p <= q

Captured(k) == \E p \in DOMAIN log : IsSetValue(p) /\ log[p].opt = k

\* C9: once a registered value-bearing option has captured a value, no later
\* token changes it: at every later point of the scan and after parse() returns
\* the option is set and its value is the token captured at its first match.
C9_CapturedValueKept ==
    \A k \in DOMAIN m_options :
        Captured(k) =>
            /\ m_options[k].m_set
            /\ m_options[k].m_value = Argv(log[FirstCapture(k)].tok)
            /\ (pc = "returned" /\ Find(m_options, m_options[k]) = k) =>
                   getValue(m_options[k]) = Argv(log[FirstCapture(k)].tok)

\* An option captured a value, its flag came again later followed by a
\* different token, and parse() returned.
C9_Witness ==
    /\ pc = "returned"
    /\ \E k \in DOMAIN m_options :
           /\ Captured(k)
           /\ \E n \in 1..(m_argc - 2) :
                  /\ n > log[FirstCapture(k)].tok
                  /\ Argv(n) = m_options[k].m_arg
                  /\ Argv(n + 1) # Argv(log[FirstCapture(k)].tok)
                  /\ \E p \in DOMAIN log : IsCheck(p) /\ log[p].opt = k /\ log[p].tok = n

\* C10: after parse() returns, a registered option with a non-empty default
\* that no token matched is set and has its default as value; a matched option
\* has the captured token as value, not the default; an option neither matched
\* nor defaulted is not set and has the empty value.  The parser's queries
\* give the same answers for the first registered instance of a declaration.
C10_DefaultSemantics ==
    pc = "returned" =>
        \A k \in DOMAIN m_options :
            LET o == m_options[k]
            IN  /\ (~Matched(k) /\ o.m_default # << >>) =>
                       (OptIsSet(o) /\ OptGetValue(o) = o.m_default)
                /\ (Matched(k) /\ Captured(k)) =>
                       (OptIsSet(o) /\ OptGetValue(o) = Argv(log[FirstCapture(k)].tok))
                /\ (Matched(k) /\ ~Captured(k)) =>
                       (OptIsSet(o) /\ OptGetValue(o) = << >>)
                /\ (~Matched(k) /\ o.m_default = << >>) =>
                       (~OptIsSet(o) /\ OptGetValue(o) = << >>)
                /\ Find(m_options, o) = k =>
                       (isSet(o) = OptIsSet(o) /\ getValue(o) = OptGetValue(o))

\* parse() returned with a defaulted option that no token matched, next to an
\* option that matched.
C10_Witness ==
    /\ pc = "returned"
    /\ \E k \in DOMAIN m_options :
           ~Matched(k) /\ m_options[k].m_default # << >> /\ isSet(m_options[k])
    /\ \E k \in DOMAIN m_options : Matched(k) /\ Captured(k)

\* parse() returned with a defaulted option that matched and captured a token.
C10_WitnessMatched ==
    /\ pc = "returned"
    /\ \E k \in DOMAIN m_options :
           /\ Matched(k) /\ Captured(k)
           /\ m_options[k].m_default # << >>
           /\ getValue(m_options[k]) # m_options[k].m_default

----------------------------------------------------------------------------
(* Claims about the queries, checked under SpecQuery *)

\* Two option objects carry the same primary name, alternate name and
\* description.
SameDeclaration(a, b) ==
    a.m_arg = b.m_arg /\ a.m_argAlt = b.m_argAlt /\ a.m_desc = b.m_desc

\* The positions of the registered options declared like q.
Registered(q) == {k \in DOMAIN m_options : SameDeclaration(m_options[k], q)}

\* The first of them: the live instance a query on q is answered from.
Live(q) == CHOOSE k \in Registered(q) : \A j \in Registered(q) : k <= j

\* C11: two option objects with the same (primary name, alternate name,
\* description) get the same answers from isSet, getValue and getValueList,
\* whatever their own default, hasValue, required, matched flag and value are,
\* and the answers are those of the first registered instance of the
\* declaration.
C11_QueriesByDeclaration ==
    /\ \A q1, q2 \in QueryPool :
           SameDeclaration(q1, q2) =>
               /\ isSet(q1) = isSet(q2)
               /\ getValue(q1) = getValue(q2)
               /\ \A d \in Delimiters : getValueList(q1, d) = getValueList(q2, d)
    /\ \A n \in DOMAIN answer :
           Registered(answer[n].opt) # {} =>
               LET o == m_options[Live(answer[n].opt)]
               IN  /\ answer[n].isSet = (o.m_set \/ o.m_default # << >>)
                   /\ answer[n].value = (IF o.m_set THEN o.m_value ELSE o.m_default)

\* The host asked with the stale OptFile object (own default "zz", own value
\* "q") after the registered OptFile captured a token: the answer is the
\* captured token.
C11_Witness ==
    /\ answer # << >>
    /\ answer[1].opt = OptFileStale
    /\ Registered(OptFileStale) # {}
    /\ Captured(Live(OptFileStale))
    /\ answer[1].isSet
    /\ answer[1].value = Argv(log[FirstCapture(Live(OptFileStale))].tok)
    /\ answer[1].value # <<"q">>
    /\ answer[1].value # <<"z", "z">>

\* C12: a query with a declaration that equals no registered option answers
\* false, the empty string and the empty list, also when the queried object has
\* a non-empty default, and every query leaves the option collection and all
\* other state of the parser as it was.
C12_MissIsEmpty ==
    [][ answer' # answer =>
            /\ UNCHANGED <<m_options, m_argv, pc, i, anyMatch, requireMatch,
                           exitCode, cout, cerr, log, m_verOpt>>
            /\ Registered(answer'[1].opt) = {} =>
                   /\ answer'[1].isSet = FALSE
                   /\ answer'[1].value = << >>
                   /\ answer'[1].list = << >> ]_vars

\* The host asked with an unregistered declaration that has a default.
C12_Witness ==
    /\ answer # << >>
    /\ Registered(answer[1].opt) = {}
    /\ m_options # << >>
    /\ answer[1].opt.m_default # << >>
    /\ ~answer[1].isSet
    /\ answer[1].list = << >>

\* The character getValueList splits on.
DelimChar(delim) == IF delim # << >> THEN delim[1] ELSE ","

\* The number of positions of s that hold c.
Count(s, c) == Cardinality({n \in DOMAIN s : s[n] = c})

\* The pieces joined again with c between them.
RECURSIVE Join(_, _)
Join(pieces, c) ==
    IF pieces = << >> THEN << >>
    ELSE IF Len(pieces) = 1 THEN pieces[1]
    ELSE pieces[1] \o <<c>> \o Join(Tail(pieces), c)

NoPieceHolds(pieces, c) == \A n \in DOMAIN pieces : Count(pieces[n], c) = 0

\* C13 as stated: the list holds, in order, the pieces of the resolved value
\* between the occurrences of delim[0] (',' for an empty delim): one piece more
\* than there are delimiter characters, so that a value without the delimiter
\* gives the list holding just that value.
C13_SplitsBetweenDelimiters ==
    \A n \in DOMAIN answer :
        Registered(answer[n].opt) # {} =>
            LET c == DelimChar(answer[n].delim)
                v == answer[n].value
                l == answer[n].list
            IN  /\ NoPieceHolds(l, c)
                /\ Len(l) = Count(v, c) + 1
                /\ Join(l, c) = v

\* C13, amended: the list holds, in order, the pieces of the resolved value
\* between the occurrences of delim[0] (',' for an empty delim; later
\* characters of delim are ignored), except that the empty piece after a
\* final delimiter is left out and that the empty value gives the empty list;
\* a non-empty value without the delimiter gives the list holding that value.
C13_SplitsLikeGetline ==
    \A n \in DOMAIN answer :
        Registered(answer[n].opt) # {} =>
            LET c == DelimChar(answer[n].delim)
                v == answer[n].value
                l == answer[n].list
            IN  /\ NoPieceHolds(l, c)
                /\ IF v = << >>
                   THEN l = << >>
                   ELSE IF v[Len(v)] = c
                   THEN Len(l) = Count(v, c) /\ Join(l, c) \o <<c>> = v
                   ELSE Len(l) = Count(v, c) + 1 /\ Join(l, c) = v

\* The host asked for the list of a captured value with a delimiter inside,
\* with a delimiter string of two characters.
C13_Witness ==
    /\ answer # << >>
    /\ Registered(answer[1].opt) # {}
    /\ Len(answer[1].delim) = 2
    /\ Len(answer[1].list) = 2
    /\ answer[1].value = <<",", "a", "a">>
    /\ answer[1].list = << <<",">>, << >> >>

----------------------------------------------------------------------------
(* Claims about matching *)

\* w is the first whitespace-delimited word of s.
IsFirstWord(w, s) ==
    /\ w # << >>
    /\ \A n \in DOMAIN w : ~IsSpace(w[n])
    /\ \E a \in 0..Len(s) :
           /\ \A n \in 1..a : IsSpace(s[n])
           /\ a + Len(w) <= Len(s)
           /\ SubSeq(s, a + 1, a + Len(w)) = w
           /\ a + Len(w) = Len(s) \/ IsSpace(s[a + Len(w) + 1])

\* The token equals the primary name of o or the first word of its
\* alternate-name field.
NameEquals(o, token) == token = o.m_arg \/ IsFirstWord(token, o.m_argAlt)

\* check had returned true on option k before history position p.
SetBefore(k, p) == \E q \in 1..(p - 1) : IsCheck(q) /\ log[q].opt = k /\ log[q].ret

\* C14 as stated: on a not-yet-set option check(token) returns true, and sets
\* the option, exactly if the token equals the primary name or the first
\* whitespace-delimited token of the alternate-name field.
C14_CheckIffNameEquals ==
    \A p \in DOMAIN log :
        (IsCheck(p) /\ ~SetBefore(log[p].opt, p)) =>
            log[p].ret = NameEquals(m_options[log[p].opt], Argv(log[p].tok))

\* C14, amended: on a not-yet-set option check(token) returns true, and sets
\* the option, exactly if the token equals the non-empty primary name or the
\* first whitespace-delimited token of the alternate-name field; an empty name
\* equals no token, the empty token included, and the rest of the
\* alternate-name field takes no part.
C14_CheckIffNonEmptyNameEquals ==
    /\ \A p \in DOMAIN log :
           (IsCheck(p) /\ ~SetBefore(log[p].opt, p)) =>
               LET o     == m_options[log[p].opt]
                   token == Argv(log[p].tok)
               IN  log[p].ret = (\/ o.m_arg # << >> /\ token = o.m_arg
                                 \/ IsFirstWord(token, o.m_argAlt))
    /\ \A k \in DOMAIN m_options : m_options[k].m_set = Matched(k)

\* The token --file was offered to the unset option declared with the
\* alternate-name field "--file FILE" and matched it.
C14_Witness ==
    \E p \in DOMAIN log :
        /\ IsCheck(p)
        /\ ~SetBefore(log[p].opt, p)
        /\ Argv(log[p].tok) = <<"-", "-", "f", "i", "l", "e">>
        /\ Len(m_options[log[p].opt].m_argAlt) > 6
        /\ log[p].ret
        /\ m_options[log[p].opt].m_set

\* The argv indices whose token was offered to the options as a flag.
ScannedTokens == {log[p].tok : p \in {q \in DOMAIN log : IsCheck(q)}}

\* Option k had not matched a token before the token at index t.
UnsetBeforeToken(k, t) ==
    ~\E q \in DOMAIN log : IsCheck(q) /\ log[q].opt = k /\ log[q].ret /\ log[q].tok < t

MatchedAt(k, t) ==
    \E p \in DOMAIN log : IsCheck(p) /\ log[p].opt = k /\ log[p].tok = t /\ log[p].ret

\* The options are offered one token in declaration order.
ChecksInDeclarationOrder ==
    \A p, q \in DOMAIN log :
        (p < q /\ IsCheck(p) /\ IsCheck(q) /\ log[p].tok = log[q].tok)
            => log[p].opt < log[q].opt

\* The scan of the token at index t ended in exit(-1) at an option before k.
CutBefore(t, k) ==
    \E p \in DOMAIN log : StarvedAt(p) /\ log[p].tok = t /\ log[p].opt < k

\* C15 as stated: for every scanned flag token every registered option that is
\* still unset and whose primary name or first alternate token equals the
\* token becomes set, in declaration order.
C15_EveryEqualOptionSet ==
    /\ ChecksInDeclarationOrder
    /\ \A t \in ScannedTokens : \A k \in DOMAIN m_options :
           (UnsetBeforeToken(k, t) /\ NameEquals(m_options[k], Argv(t)))
               => MatchedAt(k, t) /\ m_options[k].m_set

\* C15, amended: for every scanned flag token every registered option that is
\* still unset and whose non-empty primary name or first alternate token
\* equals the token becomes set, in declaration order, unless an option before
\* it matched the token, takes a value and found no token left, so that
\* parse() exited with -1 in the middle of the options.
C15_EveryEqualOptionSetUnlessCut ==
    /\ ChecksInDeclarationOrder
    /\ \A t \in ScannedTokens : \A k \in DOMAIN m_options :
           (/\ UnsetBeforeToken(k, t)
            /\ Argv(t) # << >>
            /\ NameEquals(m_options[k], Argv(t))
            /\ ~CutBefore(t, k))
               => MatchedAt(k, t) /\ m_options[k].m_set

\* One token set two registered options, the first before the second.
C15_Witness ==
    \E p, q \in DOMAIN log :
        /\ p < q
        /\ IsCheck(p) /\ IsCheck(q)
        /\ log[p].tok = log[q].tok
        /\ log[p].opt < log[q].opt
        /\ log[p].ret /\ log[q].ret
        /\ m_options[log[p].opt].m_set /\ m_options[log[q].opt].m_set

----------------------------------------------------------------------------
(* Claims about the order of the collection *)

\* One add call: the help option is put in front of the entries there are,
\* every other entry behind them.
AddKeepsCallOrder ==
    (pc = "declare" /\ m_options' # m_options) =>
        \/ /\ IsHelp(m_options'[1])
           /\ Tail(m_options') = m_options
        \/ /\ ~IsHelp(m_options'[Len(m_options')])
           /\ SubSeq(m_options', 1, Len(m_options)) = m_options
           /\ Len(m_options') = Len(m_options) + 1

\* C16: once addHelpOption was called the first entry of the collection is the
\* help option, whatever other add calls came before or after it, and every
\* add call leaves the entries that are not the help option in the order of
\* their calls, behind the help option.
C16_HelpFirst ==
    /\ [](HelpRegistered => IsHelp(m_options[1]))
    /\ [][AddKeepsCallOrder]_vars

\* The help option is registered together with an option of the host and
\* stands before it.
C16_Witness ==
    /\ Len(m_options) = 2
    /\ IsHelp(m_options[1])
    /\ m_options[2].m_arg = OptFile.m_arg
    /\ pc = "declare"

----------------------------------------------------------------------------
(* Claims about rendering, separators and the scan index *)

\* C17 as stated: the rendering of the help text ends, for every description,
\* default and column width: the wrap loop of operator<< shortens the rest of
\* the description on every iteration.
C17_RenderingTerminates == pc # "hung"

\* C18: a separator is never set and takes no token, for every argument vector,
\* one with an empty token included: no check on a separator returns true, no
\* setValue is called on it, and anyMatch is true only if an entry that is no
\* separator matched.
C18_SeparatorInert ==
    /\ \A k \in DOMAIN m_options :
           m_options[k].m_isSeparator =>
               /\ ~m_options[k].m_set
               /\ m_options[k].m_value = << >>
               /\ \A p \in DOMAIN log : log[p].opt = k => (IsCheck(p) /\ ~log[p].ret)
    /\ anyMatch => \E k \in DOMAIN m_options : ~m_options[k].m_isSeparator /\ Matched(k)

\* The empty token was offered to a separator, parse() is over and the
\* separator is unset.
C18_Witness ==
    /\ Finished
    /\ \E p \in DOMAIN log :
           /\ IsCheck(p)
           /\ m_options[log[p].opt].m_isSeparator
           /\ Argv(log[p].tok) = << >>
           /\ ~log[p].ret
           /\ ~m_options[log[p].opt].m_set
    /\ ~anyMatch

\* The token at argv index t was recorded as the value of an option.
Consumed(t) == \E p \in DOMAIN log : IsSetValue(p) /\ log[p].tok = t

\* C19: during parse() the scan index never decreases, and every argv token
\* with an index from 1 on that the scan has reached is either offered to the
\* options as a flag, once to each option, or recorded as the value of exactly
\* one option, never both: a token recorded as a value is offered to no option,
\* also when it equals a name.
C19_EachTokenOnce ==
    /\ [][i' >= i]_vars
    /\ [](/\ \A t \in ScannedTokens : ~Consumed(t)
          /\ \A p, q \in DOMAIN log :
                 (p < q /\ IsSetValue(p) /\ IsSetValue(q)) => log[p].tok < log[q].tok
          /\ \A p, q \in DOMAIN log :
                 (p < q /\ IsCheck(p) /\ IsCheck(q)) =>
                     \/ log[p].tok < log[q].tok
                     \/ log[p].tok = log[q].tok /\ log[p].opt < log[q].opt
          /\ (pc # "declare" /\ m_options # << >>) =>
                 \A t \in 1..(Min(i, m_argc) - 1) : t \in ScannedTokens \/ Consumed(t))

\* The token -h was recorded as the value of an option while the help option is
\* registered, no option was offered it, and parse() returned.
C19_Witness ==
    /\ pc = "returned"
    /\ HelpRegistered
    /\ \E p \in DOMAIN log :
           /\ IsSetValue(p)
           /\ Argv(log[p].tok) = <<"-", "h">>
           /\ log[p].tok \notin ScannedTokens
    /\ ~HelpMatched

====
